---- MODULE Spec2Model ----
(***************************************************************************)
(* Model of generalpy.signal.Signal (src/src/generalpy/signal.py): a       *)
(* single-slot signal holding one callback binding (_callback, cb_args,    *)
(* cb_kwargs), with connect / disconnect / emit and optional dispatch of   *)
(* the callback on a new thread.                                           *)
(*                                                                         *)
(* Every method is modelled statement by statement: each caller thread has *)
(* a program counter, and one action is one attribute read or write of the *)
(* Signal (or the purely local code that follows it).  Under Spec one       *)
(* caller makes all the calls: the statements of a call follow each other  *)
(* without interleaving and the only concurrency is the threads that emit  *)
(* itself starts.  Under SpecConc two callers use the same Signal without  *)
(* any locking, and their statements interleave.                           *)
(*                                                                         *)
(* Not modelled: name, daemon and logger (they never influence which       *)
(* callback runs, with which arguments, or what a call raises, except for  *)
(* the evaluation of the log message, which is modelled).                  *)
(***************************************************************************)
EXTENDS Integers, Sequences, FiniteSets, TLC

\* ------------------------------------------------------------------ bounds
\* Number of connect / disconnect / emit calls made in one behaviour.
MaxOps == 3

\* ------------------------------------------------------- python values
\* Python's None.
None == "None"

\* The callables handed to connect / disconnect.  They differ in exactly the
\* properties the code of Signal looks at:
\*   f   a plain function that returns
\*   g   a plain function that raises when called
\*   m1  a bound-method object  obj.method
\*   m2  another bound-method object of the same obj.method (m1 == m2, m1 is not m2)
\*   p   a functools.partial object: callable, without a __name__ attribute
\*   z   a callable object with a __name__ whose truth value is False
\*       (it defines __bool__ / __len__)
Callbacks == {"f", "g", "m1", "m2", "p", "z"}

\* callback.__name__ exists (it is read by every log message and by the
\* thread name); reading it on p or on None raises AttributeError.
HasName(c) == c \notin {"p", None}

\* bool(callback), as tested by `if self._callback:`.
Truthy(c) == c \notin {None, "z"}

\* self._callback != callback: Python's (in)equality, not identity.
NotEqual(c, d) == ~(c = d \/ {c, d} = {"m1", "m2"})

\* Calling the callback raises.
Raises(c) == c = "g"

\* Positional arguments are tuples, keyword arguments mappings key -> value.
EmptyArgs == << >>
EmptyKw == [k \in {} |-> 0]
Kw(dom, val) == [k \in dom |-> val[k]]

\* What connect is called with after the callback: (*args, **kwargs).
ConnectBindings ==
    { [args |-> EmptyArgs, kwargs |-> EmptyKw],
      [args |-> <<1, 2>>, kwargs |-> Kw({"x"}, [x |-> 10])] }
\* What emit is called with after `threaded`: (*args, **kwargs).
EmitBindings ==
    { [args |-> EmptyArgs, kwargs |-> EmptyKw],
      [args |-> <<3>>, kwargs |-> Kw({"x", "y"}, [x |-> 20, y |-> 30])] }
\* emit's `threaded` argument: None (unset), True or False.
ThreadedArg == {None, "True", "False"}

\* self.cb_args + args
ConcatArgs(bound, given) == bound \o given

\* A merge in which the connect-time value survives a key collision.
MergeKwargsBoundWins(bound, given) ==
    [k \in DOMAIN bound \cup DOMAIN given |->
        IF k \in DOMAIN bound THEN bound[k] ELSE given[k]]
\* {**self.cb_kwargs, **kwargs}: the later mapping wins on a shared key.
MergeKwargs(bound, given) ==
    [k \in DOMAIN bound \cup DOMAIN given |->
        IF k \in DOMAIN given THEN given[k] ELSE bound[k]]

\* A mode that is always the configured default (the argument is ignored).
EffectiveThreadedIgnoresArg(dflt, arg) == dflt
\* self.threaded if threaded is None else threaded
EffectiveThreaded(dflt, arg) == IF arg = None THEN dflt ELSE arg = "True"

\* ------------------------------------------------------------------- state
\* The caller threads (the threads of the host program that call the methods).
Callers == {1, 2}

VARIABLES
    threaded,    \* self.threaded, the configured default dispatch mode
    callback,    \* self._callback
    cb_args,     \* self.cb_args
    cb_kwargs,   \* self.cb_kwargs
    pc,          \* pc[t]: where caller t is inside the method it called
                 \* ("idle" between calls, "off" for a thread making none)
    frame,       \* frame[t]: arguments, locals and outcome of caller t's
                 \* current call (or, when pc[t] = "idle", of its last call)
    threads,     \* the threads started by emit, in creation order
    nops,        \* number of calls made so far
    connected    \* the bindings (callback, args, kwargs) connect has been
                 \* called with so far

vars == <<threaded, callback, cb_args, cb_kwargs, pc, frame, threads, nops, connected>>

\* The binding as one value.
Binding == [callback |-> callback, cb_args |-> cb_args, cb_kwargs |-> cb_kwargs]
NoBinding == [callback |-> None, cb_args |-> EmptyArgs, cb_kwargs |-> EmptyKw]
\* The binding connect(cb, *args, **kwargs) is meant to leave.
Bound(cb, args, kwargs) == [callback |-> cb, cb_args |-> args, cb_kwargs |-> kwargs]

\* What a caller remembers of the call before its current one: which call it
\* was, how it ended, and the binding it was made on.
Summary(f) ==
    [op |-> f.op, cb |-> f.cb, args |-> f.args, kwargs |-> f.kwargs,
     ignoreError |-> f.ignoreError, outcome |-> f.outcome, pre |-> f.pre]
NoCall == [op |-> "none", cb |-> None, args |-> EmptyArgs, kwargs |-> EmptyKw,
           ignoreError |-> FALSE, outcome |-> "ok", pre |-> NoBinding]

NoInvocation == [target |-> None, args |-> EmptyArgs, kwargs |-> EmptyKw]

\* A call's frame.  outcome is "running" until the call returns ("ok") or
\* raises ("ValueError", "AttributeError", "TypeError", or "CallbackError" for
\* the exception raised by the callback itself).
NewFrame(op, cb, args, kwargs, ign, thr, prev) ==
    [id |-> nops + 1,          \* the calls are numbered 1, 2, ... as they are made
     op |-> op, cb |-> cb, args |-> args, kwargs |-> kwargs,
     ignoreError |-> ign, threaded |-> thr,
     pre |-> Binding,          \* the binding when the call was made
     \* ... and whether another thread was inside a method at that moment
     concurrent |-> \E u \in Callers : pc[u] \notin {"idle", "off"},
     prev |-> prev,            \* the caller's previous call (see Summary)
     _threaded |-> FALSE, _args |-> EmptyArgs, _kwargs |-> EmptyKw,
     called |-> FALSE,         \* the call has called a callback on its own thread,
     inv |-> NoInvocation,     \* ... namely inv.target(*inv.args, **inv.kwargs),
     invDone |-> FALSE,        \* ... and that callback has run to its end
     spawned |-> 0,            \* threads this call has started
     outcome |-> "running"]

\* Signal.__init__: no callback, empty arguments.
InitThreaded == BOOLEAN

Init ==
    /\ threaded \in InitThreaded
    /\ callback = None
    /\ cb_args = EmptyArgs
    /\ cb_kwargs = EmptyKw
    /\ threads = << >>
    /\ nops = 0
    /\ connected = {}
    /\ pc = [t \in Callers |-> IF t = 1 THEN "idle" ELSE "off"]
    /\ frame = [t \in Callers |->
                 [NewFrame("init", None, EmptyArgs, EmptyKw, FALSE, None, NoCall)
                    EXCEPT !.id = 0, !.outcome = "ok"]]

\* A Signal() constructed with the default arguments (threaded = False),
\* shared by two threads that both call its methods.
InitConc ==
    /\ threaded = FALSE
    /\ callback = None
    /\ cb_args = EmptyArgs
    /\ cb_kwargs = EmptyKw
    /\ threads = << >>
    /\ nops = 0
    /\ connected = {}
    /\ pc = [t \in Callers |-> "idle"]
    /\ frame = [t \in Callers |->
                 [NewFrame("init", None, EmptyArgs, EmptyKw, FALSE, None, NoCall)
                    EXCEPT !.id = 0, !.outcome = "ok"]]

\* The call returns or raises: back to the caller.
Finish(t, f, outcome) ==
    /\ pc' = [pc EXCEPT ![t] = "idle"]
    /\ frame' = [frame EXCEPT ![t] = [f EXCEPT !.outcome = outcome]]

Goto(t, label) == pc' = [pc EXCEPT ![t] = label]

\* ----------------------------------------------------------------- connect
CallConnect(t, cb, args, kwargs) ==
    /\ pc[t] = "idle"
    /\ nops < MaxOps
    /\ nops' = nops + 1
    /\ frame' = [frame EXCEPT ![t] = NewFrame("connect", cb, args, kwargs, FALSE, None,
                                              Summary(frame[t]))]
    /\ Goto(t, "connect_callback")
    /\ connected' = connected \cup {Bound(cb, args, kwargs)}
    /\ UNCHANGED <<threaded, callback, cb_args, cb_kwargs, threads>>

\* A Signal whose threads look self._callback up only when they run: a
\* connect made meanwhile changes the target of the threads not yet run.
ConnectSetCallbackRetargets(t) ==
    /\ pc[t] = "connect_callback"
    /\ callback' = frame[t].cb
    /\ threads' = [i \in DOMAIN threads |->
                     IF threads[i].state = "started"
                     THEN [threads[i] EXCEPT !.target = frame[t].cb]
                     ELSE threads[i]]
    /\ Goto(t, "connect_args")
    /\ UNCHANGED <<threaded, cb_args, cb_kwargs, frame, nops, connected>>

\* self._callback = callback
ConnectSetCallback(t) ==
    /\ pc[t] = "connect_callback"
    /\ callback' = frame[t].cb
    /\ Goto(t, "connect_args")
    /\ UNCHANGED <<threaded, cb_args, cb_kwargs, frame, threads, nops, connected>>

\* A connect that extends the bound arguments (self.cb_args += args).
ConnectSetArgsAppends(t) ==
    /\ pc[t] = "connect_args"
    /\ cb_args' = cb_args \o frame[t].args
    /\ Goto(t, "connect_kwargs")
    /\ UNCHANGED <<threaded, callback, cb_kwargs, frame, threads, nops, connected>>

\* self.cb_args = args
ConnectSetArgs(t) ==
    /\ pc[t] = "connect_args"
    /\ cb_args' = frame[t].args
    /\ Goto(t, "connect_kwargs")
    /\ UNCHANGED <<threaded, callback, cb_kwargs, frame, threads, nops, connected>>

\* self.cb_kwargs = kwargs
ConnectSetKwargs(t) ==
    /\ pc[t] = "connect_kwargs"
    /\ cb_kwargs' = frame[t].kwargs
    /\ Goto(t, "connect_log")
    /\ UNCHANGED <<threaded, callback, cb_args, frame, threads, nops, connected>>

\* self.logger.debug(f'Callback "{callback.__name__}(...)" setted ...'):
\* the message is built first, and reading __name__ may raise.
ConnectLog(t) ==
    /\ pc[t] = "connect_log"
    /\ Finish(t, frame[t], IF HasName(frame[t].cb) THEN "ok" ELSE "AttributeError")
    /\ UNCHANGED <<threaded, callback, cb_args, cb_kwargs, threads, nops, connected>>

Connect(t) ==
    \/ \E cb \in Callbacks, b \in ConnectBindings :
          CallConnect(t, cb, b.args, b.kwargs)
    \/ ConnectSetCallback(t)
    \/ ConnectSetArgs(t)
    \/ ConnectSetKwargs(t)
    \/ ConnectLog(t)

\* -------------------------------------------------------------- disconnect
CallDisconnect(t, cb, ign) ==
    /\ pc[t] = "idle"
    /\ nops < MaxOps
    /\ nops' = nops + 1
    /\ frame' = [frame EXCEPT ![t] = NewFrame("disconnect", cb, EmptyArgs, EmptyKw, ign, None,
                                              Summary(frame[t]))]
    /\ Goto(t, "disconnect_compare")
    /\ UNCHANGED <<threaded, callback, cb_args, cb_kwargs, threads, connected>>

\* A disconnect that resets the Signal whenever it does not raise.
DisconnectCompareClearsOnIgnore(t) ==
    /\ pc[t] = "disconnect_compare"
    /\ IF NotEqual(callback, frame[t].cb) /\ ~frame[t].ignoreError
         THEN Finish(t, frame[t],
                     IF HasName(frame[t].cb) THEN "ValueError" ELSE "AttributeError")
         ELSE IF HasName(frame[t].cb)
                THEN Goto(t, "default_callback") /\ UNCHANGED frame
                ELSE Finish(t, frame[t], "AttributeError")
    /\ UNCHANGED <<threaded, callback, cb_args, cb_kwargs, threads, nops, connected>>

\* if self._callback != callback:
\*     if ignoreError: self.logger.debug(f'"{callback.__name__}" is not ...'); return
\*     raise ValueError(f'"{callback.__name__}" is not connected ...')
\* self.logger.debug(f'Removed "{callback.__name__}" from ...')
\* Each of the three messages reads callback.__name__ while it is built, so
\* on a callback without __name__ each of the three paths ends in the
\* AttributeError of that read.
DisconnectCompare(t) ==
    /\ pc[t] = "disconnect_compare"
    /\ IF NotEqual(callback, frame[t].cb)
         THEN IF frame[t].ignoreError
                THEN Finish(t, frame[t],
                            IF HasName(frame[t].cb) THEN "ok" ELSE "AttributeError")
                ELSE Finish(t, frame[t],
                            IF HasName(frame[t].cb) THEN "ValueError" ELSE "AttributeError")
         ELSE IF HasName(frame[t].cb)
                THEN Goto(t, "default_callback") /\ UNCHANGED frame
                ELSE Finish(t, frame[t], "AttributeError")
    /\ UNCHANGED <<threaded, callback, cb_args, cb_kwargs, threads, nops, connected>>

\* _set_default_values: self._callback = None
SetDefaultCallback(t) ==
    /\ pc[t] = "default_callback"
    /\ callback' = None
    /\ Goto(t, "default_args")
    /\ UNCHANGED <<threaded, cb_args, cb_kwargs, frame, threads, nops, connected>>

\* A _set_default_values that forgets self.cb_args.
SetDefaultArgsKeeps(t) ==
    /\ pc[t] = "default_args"
    /\ Goto(t, "default_kwargs")
    /\ UNCHANGED <<threaded, callback, cb_args, cb_kwargs, frame, threads, nops, connected>>

\* _set_default_values: self.cb_args = tuple()
SetDefaultArgs(t) ==
    /\ pc[t] = "default_args"
    /\ cb_args' = EmptyArgs
    /\ Goto(t, "default_kwargs")
    /\ UNCHANGED <<threaded, callback, cb_kwargs, frame, threads, nops, connected>>

\* _set_default_values: self.cb_kwargs = dict(); disconnect returns.
SetDefaultKwargs(t) ==
    /\ pc[t] = "default_kwargs"
    /\ cb_kwargs' = EmptyKw
    /\ Finish(t, frame[t], "ok")
    /\ UNCHANGED <<threaded, callback, cb_args, threads, nops, connected>>

Disconnect(t) ==
    \/ \E cb \in Callbacks, ign \in BOOLEAN : CallDisconnect(t, cb, ign)
    \/ DisconnectCompare(t)
    \/ SetDefaultCallback(t)
    \/ SetDefaultArgs(t)
    \/ SetDefaultKwargs(t)

\* -------------------------------------------------------------------- emit
CallEmit(t, thr, args, kwargs) ==
    /\ pc[t] = "idle"
    /\ nops < MaxOps
    /\ nops' = nops + 1
    /\ frame' = [frame EXCEPT ![t] = NewFrame("emit", None, args, kwargs, FALSE, thr,
                                              Summary(frame[t]))]
    /\ Goto(t, "emit_threaded")
    /\ UNCHANGED <<threaded, callback, cb_args, cb_kwargs, threads, connected>>

\* _threaded = self.threaded if threaded is None else threaded
EmitReadThreaded(t) ==
    /\ pc[t] = "emit_threaded"
    /\ frame' = [frame EXCEPT ![t]._threaded =
                    EffectiveThreaded(threaded, frame[t].threaded)]
    /\ Goto(t, "emit_args")
    /\ UNCHANGED <<threaded, callback, cb_args, cb_kwargs, threads, nops, connected>>

\* _args = self.cb_args + args
EmitReadArgs(t) ==
    /\ pc[t] = "emit_args"
    /\ frame' = [frame EXCEPT ![t]._args = ConcatArgs(cb_args, frame[t].args)]
    /\ Goto(t, "emit_kwargs")
    /\ UNCHANGED <<threaded, callback, cb_args, cb_kwargs, threads, nops, connected>>

\* An emit that merges its keyword arguments into the bound ones
\* (self.cb_kwargs.update(kwargs)).
EmitReadKwargsUpdatesBound(t) ==
    /\ pc[t] = "emit_kwargs"
    /\ cb_kwargs' = MergeKwargs(cb_kwargs, frame[t].kwargs)
    /\ frame' = [frame EXCEPT ![t]._kwargs = MergeKwargs(cb_kwargs, frame[t].kwargs)]
    /\ Goto(t, "emit_test")
    /\ UNCHANGED <<threaded, callback, cb_args, threads, nops, connected>>

\* _kwargs = {**self.cb_kwargs, **kwargs}
EmitReadKwargs(t) ==
    /\ pc[t] = "emit_kwargs"
    /\ frame' = [frame EXCEPT ![t]._kwargs = MergeKwargs(cb_kwargs, frame[t].kwargs)]
    /\ Goto(t, "emit_test")
    /\ UNCHANGED <<threaded, callback, cb_args, cb_kwargs, threads, nops, connected>>

\* An emit without the `if self._callback:` guard.
EmitTestNoGuard(t) ==
    /\ pc[t] = "emit_test"
    /\ Goto(t, IF frame[t]._threaded THEN "emit_thread_name" ELSE "emit_call")
    /\ UNCHANGED <<threaded, callback, cb_args, cb_kwargs, frame, threads, nops, connected>>

\* if self._callback:      (first read of self._callback: its truth value)
\*     if _threaded: ... else: ...
\* With nothing to run, emit returns None.
EmitTest(t) ==
    /\ pc[t] = "emit_test"
    /\ IF Truthy(callback)
         THEN /\ Goto(t, IF frame[t]._threaded THEN "emit_thread_name" ELSE "emit_call")
              /\ UNCHANGED frame
         ELSE Finish(t, frame[t], "ok")
    /\ UNCHANGED <<threaded, callback, cb_args, cb_kwargs, threads, nops, connected>>

\* name=f'Signal Thread {self._callback.__name__}'   (second read of
\* self._callback; the attribute read raises AttributeError on an object
\* without __name__, None included)
EmitThreadName(t) ==
    /\ pc[t] = "emit_thread_name"
    /\ IF HasName(callback)
         THEN Goto(t, "emit_spawn") /\ UNCHANGED frame
         ELSE Finish(t, frame[t], "AttributeError")
    /\ UNCHANGED <<threaded, callback, cb_args, cb_kwargs, threads, nops, connected>>

\* The threaded-execution helper generalpy.decorator.run_threaded:
\* run_threaded(daemon, name, logger)(target)(*args, **kwargs) starts a new
\* thread that calls target(*args, **kwargs), and returns without waiting
\* for it.  The new thread, as started by call number `call`:
RunThreaded(target, args, kwargs, call) ==
    [target |-> target, args |-> args, kwargs |-> kwargs, call |-> call,
     state |-> "started",       \* "started", then "done" once target has run
     raised |-> FALSE,          \* target raised, inside the thread
     emitReturned |-> FALSE]    \* the emit that started it has returned

\* An emit that, in threaded mode too, calls the callback itself.
EmitSpawnRunsInline(t) ==
    /\ pc[t] = "emit_spawn"
    /\ frame' = [frame EXCEPT
                   ![t].called = TRUE,
                   ![t].inv = [target |-> callback, args |-> frame[t]._args,
                               kwargs |-> frame[t]._kwargs]]
    /\ Goto(t, "in_callback")
    /\ UNCHANGED <<threaded, callback, cb_args, cb_kwargs, threads, nops, connected>>

\* run_threaded(...)(self._callback)(*_args, **_kwargs)   (third read of
\* self._callback: the object handed to the new thread)
EmitSpawn(t) ==
    /\ pc[t] = "emit_spawn"
    /\ threads' = Append(threads,
                         RunThreaded(callback, frame[t]._args, frame[t]._kwargs,
                                     frame[t].id))
    /\ frame' = [frame EXCEPT ![t].spawned = @ + 1]
    /\ Goto(t, "emit_return")
    /\ UNCHANGED <<threaded, callback, cb_args, cb_kwargs, nops, connected>>

\* An emit that hands what its thread has raised so far to its caller.
EmitReturnRaisesThreadError(t) ==
    /\ pc[t] = "emit_return"
    /\ Finish(t, frame[t],
              IF \E i \in DOMAIN threads :
                     threads[i].call = frame[t].id /\ threads[i].raised
                THEN "CallbackError" ELSE "ok")
    /\ threads' = [i \in DOMAIN threads |->
                     IF threads[i].call = frame[t].id
                       THEN [threads[i] EXCEPT !.emitReturned = TRUE]
                       ELSE threads[i]]
    /\ UNCHANGED <<threaded, callback, cb_args, cb_kwargs, nops, connected>>

\* emit returns None after the helper has returned.
EmitReturn(t) ==
    /\ pc[t] = "emit_return"
    /\ Finish(t, frame[t], "ok")
    /\ threads' = [i \in DOMAIN threads |->
                     IF threads[i].call = frame[t].id
                       THEN [threads[i] EXCEPT !.emitReturned = TRUE]
                       ELSE threads[i]]
    /\ UNCHANGED <<threaded, callback, cb_args, cb_kwargs, nops, connected>>

\* self._callback(*_args, **_kwargs)   (second read of self._callback, then
\* the call, on the caller's thread; calling None raises TypeError)
EmitCall(t) ==
    /\ pc[t] = "emit_call"
    /\ IF callback = None
         THEN Finish(t, frame[t], "TypeError")
         ELSE /\ frame' = [frame EXCEPT
                             ![t].called = TRUE,
                             ![t].inv = [target |-> callback, args |-> frame[t]._args,
                                         kwargs |-> frame[t]._kwargs]]
              /\ Goto(t, "in_callback")
    /\ UNCHANGED <<threaded, callback, cb_args, cb_kwargs, threads, nops, connected>>

\* An emit that swallows what the callback raises (try: ... except: pass).
CallbackReturnSwallows(t) ==
    /\ pc[t] = "in_callback"
    /\ Finish(t, [frame[t] EXCEPT !.invDone = TRUE], "ok")
    /\ UNCHANGED <<threaded, callback, cb_args, cb_kwargs, threads, nops, connected>>

\* The callback runs to its end on the caller's thread; what it raises is
\* what the call expression, and so emit, raises.
CallbackReturn(t) ==
    /\ pc[t] = "in_callback"
    /\ Finish(t, [frame[t] EXCEPT !.invDone = TRUE],
              IF Raises(frame[t].inv.target) THEN "CallbackError" ELSE "ok")
    /\ UNCHANGED <<threaded, callback, cb_args, cb_kwargs, threads, nops, connected>>

\* A thread started by emit runs its target to the end, whenever the
\* scheduler lets it.  Whatever the target raises (a TypeError when the
\* target is None) ends that thread only.
ThreadRun(i) ==
    /\ threads[i].state = "started"
    /\ threads' = [threads EXCEPT ![i] =
                     [@ EXCEPT !.state = "done",
                               !.raised = (threads[i].target = None
                                           \/ Raises(threads[i].target))]]
    /\ UNCHANGED <<threaded, callback, cb_args, cb_kwargs, pc, frame, nops, connected>>

Emit(t) ==
    \/ \E thr \in ThreadedArg, b \in EmitBindings : CallEmit(t, thr, b.args, b.kwargs)
    \/ EmitReadThreaded(t)
    \/ EmitReadArgs(t)
    \/ EmitReadKwargs(t)
    \/ EmitTest(t)
    \/ EmitThreadName(t)
    \/ EmitSpawn(t)
    \/ EmitReturn(t)
    \/ EmitCall(t)
    \/ CallbackReturn(t)

Next ==
    \/ \E t \in Callers : Connect(t) \/ Disconnect(t) \/ Emit(t)
    \/ \E i \in DOMAIN threads : ThreadRun(i)

Spec == Init /\ [][Next]_vars

\* Two callers, no external locking: one thread connects and disconnects
\* plain functions while the other emits.
Writer == 1
Emitter == 2
WriterCallbacks == {"f", "g"}
NextConc ==
    \/ \E cb \in WriterCallbacks, b \in ConnectBindings :
          CallConnect(Writer, cb, b.args, b.kwargs)
    \/ ConnectSetCallback(Writer)
    \/ ConnectSetArgs(Writer)
    \/ ConnectSetKwargs(Writer)
    \/ ConnectLog(Writer)
    \/ \E cb \in WriterCallbacks, ign \in BOOLEAN : CallDisconnect(Writer, cb, ign)
    \/ DisconnectCompare(Writer)
    \/ SetDefaultCallback(Writer)
    \/ SetDefaultArgs(Writer)
    \/ SetDefaultKwargs(Writer)
    \/ Emit(Emitter)
    \/ \E i \in DOMAIN threads : ThreadRun(i)

SpecConc == InitConc /\ [][NextConc]_vars

\* ================================================================= claims
\* Caller t's last call was `op` and it has returned or raised.
Done(t, op) == pc[t] = "idle" /\ frame[t].op = op
\* The threads started by caller t's current (or last) call.
ThreadsOf(t) == {i \in DOMAIN threads : threads[i].call = frame[t].id}
\* C1: after connect(c2, args2, kwargs2), whatever was bound before, exactly
\* c2 with args2 / kwargs2 is bound and the connect has raised nothing; an emit
\* that follows runs c2 and nothing else; the Signal always holds no callback
\* or one.
C1_ConnectReplaces ==
    /\ callback \in Callbacks \cup {None}
    /\ \A t \in Callers :
        /\ Done(t, "connect") =>
              /\ frame[t].outcome = "ok"
              /\ Binding = Bound(frame[t].cb, frame[t].args, frame[t].kwargs)
        /\ (frame[t].op = "emit" /\ frame[t].prev.op = "connect") =>
              /\ frame[t].called => frame[t].inv.target = frame[t].prev.cb
              /\ \A i \in ThreadsOf(t) : threads[i].target = frame[t].prev.cb

\* C2: disconnect(c) on a Signal whose bound callback is that very c raises
\* nothing and leaves no callback and empty bound arguments; an emit made
\* next invokes nothing.
C2_DisconnectClears ==
    \A t \in Callers :
        /\ (Done(t, "disconnect") /\ frame[t].pre.callback = frame[t].cb) =>
              /\ frame[t].outcome = "ok"
              /\ Binding = NoBinding
        /\ (frame[t].op = "emit" /\ frame[t].prev.op = "disconnect"
              /\ frame[t].prev.pre.callback = frame[t].prev.cb) =>
              /\ ~frame[t].called
              /\ ThreadsOf(t) = {}

\* C3: disconnect(c) with c not the very object that is bound (another
\* object, equal to c or not, or nothing bound) raises the "not connected"
\* error when ignoreError is false and returns normally when it is true.
C3_MismatchRaisesOrIgnores ==
    \A t \in Callers :
        (Done(t, "disconnect") /\ frame[t].pre.callback # frame[t].cb) =>
            frame[t].outcome = IF frame[t].ignoreError THEN "ok" ELSE "ValueError"

\* disconnect(c) took the mismatch branch: the bound callback it was called on
\* and c are unequal.
Mismatch(f) == f.op = "disconnect" /\ NotEqual(f.pre.callback, f.cb)

MergedCall(target, args, kwargs, cb, A, K, a, k) ==
    /\ target = cb
    /\ Len(args) = Len(A) + Len(a)
    /\ \A n \in 1..Len(A) : args[n] = A[n]
    /\ \A n \in 1..Len(a) : args[Len(A) + n] = a[n]
    /\ DOMAIN kwargs = DOMAIN K \cup DOMAIN k
    /\ \A key \in DOMAIN k : kwargs[key] = k[key]
    /\ \A key \in DOMAIN K \ DOMAIN k : kwargs[key] = K[key]

\* C5: whatever an emit(_, *a, **k) invokes, on its own thread or through a
\* new thread, is the callback bound when emit was called, with the bound
\* positional arguments followed by a and the bound keyword arguments
\* overlaid with k; after connect(cb, *A, **K) that is cb, A and K.
C5_EmitMergesArguments ==
    \A t \in Callers :
        frame[t].op = "emit" =>
            /\ frame[t].prev.op = "connect" =>
                  frame[t].pre = Bound(frame[t].prev.cb, frame[t].prev.args,
                                       frame[t].prev.kwargs)
            /\ frame[t].called =>
                  MergedCall(frame[t].inv.target, frame[t].inv.args, frame[t].inv.kwargs,
                             frame[t].pre.callback, frame[t].pre.cb_args,
                             frame[t].pre.cb_kwargs, frame[t].args, frame[t].kwargs)
            /\ \A i \in ThreadsOf(t) :
                  MergedCall(threads[i].target, threads[i].args, threads[i].kwargs,
                             frame[t].pre.callback, frame[t].pre.cb_args,
                             frame[t].pre.cb_kwargs, frame[t].args, frame[t].kwargs)
\* ... reached: connect(f, 1, 2, x=10) then emit(False, 3, x=20, y=30) has
\* called f(1, 2, 3, x=20, y=30).
C5_Witness ==
    \E t \in Callers :
        /\ Done(t, "emit")
        /\ frame[t].prev.op = "connect"
        /\ frame[t].prev.cb = "f"
        /\ frame[t].prev.args = <<1, 2>>
        /\ frame[t].prev.kwargs = [x |-> 10]
        /\ frame[t].threaded = "False"
        /\ frame[t].args = <<3>>
        /\ frame[t].kwargs = [x |-> 20, y |-> 30]
        /\ frame[t].inv = [target |-> "f", args |-> <<1, 2, 3>>,
                           kwargs |-> [x |-> 20, y |-> 30]]
        /\ frame[t].invDone

\* C6: from the call of emit to its end (return or raise), in either dispatch
\* mode, callback, cb_args and cb_kwargs are what they were when emit was
\* called.
C6_EmitLeavesBinding ==
    \A t \in Callers : frame[t].op = "emit" => Binding = frame[t].pre
\* ... reached: an emit with keyword arguments that override a bound key has
\* ended by the callback raising, and an earlier emit preceded it.
C6_Witness ==
    \E t \in Callers :
        /\ Done(t, "emit")
        /\ frame[t].outcome = "CallbackError"
        /\ frame[t].pre.cb_kwargs = [x |-> 10]
        /\ frame[t].kwargs = [x |-> 20, y |-> 30]
        /\ frame[t].prev.op = "emit"

\* C7: an emit called while no callback is bound (a new Signal, or after a
\* matching disconnect), whatever its threaded argument and arguments, raises
\* nothing, invokes nothing, starts no thread and leaves the binding empty.
C7_EmitUnboundIsNoOp ==
    \A t \in Callers :
        (frame[t].op = "emit" /\ frame[t].pre.callback = None) =>
            /\ frame[t].outcome \in {"running", "ok"}
            /\ ~frame[t].called
            /\ frame[t].spawned = 0
            /\ ThreadsOf(t) = {}
            /\ Binding = NoBinding
\* ... reached: emit(True, 3, x=20, y=30) has returned on a Signal that a
\* matching disconnect had just cleared.
C7_Witness ==
    \E t \in Callers :
        /\ Done(t, "emit")
        /\ frame[t].pre.callback = None
        /\ frame[t].threaded = "True"
        /\ frame[t].args = <<3>>
        /\ frame[t].prev.op = "disconnect"
        /\ frame[t].prev.pre.callback = "f"
        /\ frame[t].prev.cb = "f"

\* C8: in synchronous dispatch the callback is called on the emitting thread
\* and no thread is started; emit has not ended while that call is pending or
\* running; if the callback raises, emit ends with that exception, otherwise
\* it returns; and a bound callback that tests true is called.
C8_SyncEmitCompletesCallback ==
    \A t \in Callers :
        (Done(t, "emit") /\ ~frame[t]._threaded) =>
            /\ ThreadsOf(t) = {}
            /\ Truthy(frame[t].pre.callback) => frame[t].called
            /\ frame[t].called =>
                  /\ frame[t].invDone
                  /\ frame[t].outcome =
                        IF Raises(frame[t].inv.target) THEN "CallbackError" ELSE "ok"
\* ... reached: a synchronous emit has ended with the exception g raised.
C8_Witness ==
    \E t \in Callers :
        /\ Done(t, "emit")
        /\ ~frame[t]._threaded
        /\ frame[t].called
        /\ frame[t].inv.target = "g"
        /\ frame[t].invDone
        /\ frame[t].outcome = "CallbackError"

\* C9 as stated: the effect of a callback run by a thread (the thread has
\* run its target) is never there before the emit that started the thread
\* has returned.
C9_NoEffectBeforeEmitReturns ==
    \A i \in DOMAIN threads : threads[i].state = "done" => threads[i].emitReturned

\* C9, amended: in threaded dispatch the emitting thread never calls the
\* callback itself; it starts at most one thread for it and, once the thread
\* is started, returns whether or not the callback has run; the thread, and
\* so the callback's effect, exists only from the moment emit has started it.
C9_ThreadedEmitDoesNotWait ==
    \A t \in Callers :
        (frame[t].op = "emit" /\ frame[t]._threaded) =>
            /\ ~frame[t].called
            /\ Cardinality(ThreadsOf(t)) = frame[t].spawned
            /\ frame[t].spawned \in {0, 1}
            /\ ThreadsOf(t) # {} => pc[t] \in {"emit_return", "idle"}
            /\ pc[t] = "emit_return" => ENABLED EmitReturn(t)
\* ... reached: a threaded emit has returned and the thread it started has
\* not run the callback yet.
C9_Witness ==
    \E t \in Callers :
        /\ Done(t, "emit")
        /\ frame[t]._threaded
        /\ frame[t].outcome = "ok"
        /\ \E i \in ThreadsOf(t) :
              threads[i].state = "started" /\ threads[i].emitReturned

\* C10: an emit that has started a thread for the callback returns normally,
\* whatever the callback does in that thread: what the callback raises ends
\* the thread and never the emit.
C10_ThreadedErrorsStayInThread ==
    \A t \in Callers :
        (frame[t].op = "emit" /\ frame[t].spawned > 0) =>
            /\ frame[t].outcome \in {"running", "ok"}
            /\ ~frame[t].called
\* ... reached: g has raised in its thread before the emit that started the
\* thread returned, and that emit has returned normally.
C10_Witness ==
    \E t \in Callers :
        /\ Done(t, "emit")
        /\ frame[t].outcome = "ok"
        /\ frame[t].prev.op = "connect"
        /\ \E i \in ThreadsOf(t) :
              /\ threads[i].target = "g"
              /\ threads[i].state = "done"
              /\ threads[i].raised

\* Caller t's emit has read its dispatch mode (line 97 is behind it).
ModeRead(t) == frame[t].op = "emit" /\ pc[t] # "emit_threaded"

\* C11: the mode an emit dispatches in is its threaded argument when that is
\* True or False, whatever the configured default, and the configured default
\* when the argument is None: only in threaded mode does it start a thread,
\* only in synchronous mode does it call the callback itself.  No step of any
\* call changes the configured default.
C11_EffectiveMode ==
    /\ [](\A t \in Callers :
            ModeRead(t) =>
               /\ frame[t].threaded = "True" => frame[t]._threaded
               /\ frame[t].threaded = "False" => ~frame[t]._threaded
               /\ frame[t].threaded = None => frame[t]._threaded = threaded
               /\ frame[t].called => ~frame[t]._threaded
               /\ frame[t].spawned > 0 => frame[t]._threaded)
    /\ [][threaded' = threaded]_vars
\* ... reached: on a Signal configured threaded, emit(False) has called the
\* callback itself right after an emit(None) that had started a thread.
C11_Witness ==
    \E t \in Callers :
        /\ Done(t, "emit")
        /\ threaded
        /\ frame[t].threaded = "False"
        /\ frame[t].called
        /\ frame[t].prev.op = "emit"
        /\ \E i \in DOMAIN threads : threads[i].call = frame[t].id - 1

\* C12: connect never raises: whatever callable it is given, with whatever
\* arguments and on whatever binding, it returns normally and leaves that
\* callable bound.
C12_ConnectNeverRaises ==
    \A t \in Callers :
        (frame[t].op = "connect" /\ frame[t].outcome # "running") =>
            /\ frame[t].outcome = "ok"
            /\ callback = frame[t].cb

\* C13: an emit, also while another thread connects or disconnects, ends in
\* one of two ways only: it returns, or, in synchronous mode, it raises what
\* the callback it called has raised.  It never raises an error of its own
\* (the TypeError of calling None, the AttributeError of reading
\* None.__name__).
C13_EmitNeverFailsItself ==
    \A t \in Callers :
        frame[t].op = "emit" =>
            /\ frame[t].outcome \in {"running", "ok", "CallbackError"}
            /\ frame[t].outcome = "CallbackError" =>
                  (~frame[t]._threaded /\ frame[t].called)

\* target(args, kwargs), invoked by an emit(_, *a, **k), uses a binding that
\* some single connect call was made with.
BoundTogether(target, args, kwargs, a, k) ==
    \E b \in connected :
        MergedCall(target, args, kwargs, b.callback, b.cb_args, b.cb_kwargs, a, k)
\* The call with frame f has called a callback, on its own thread, with bound
\* arguments that no single connect ever bound to it.
MixedCall(f) ==
    /\ f.op = "emit"
    /\ f.called
    /\ ~BoundTogether(f.inv.target, f.inv.args, f.inv.kwargs, f.args, f.kwargs)
\* A method call of another thread overlaps t's current call so far: it was
\* in progress when t made the call, or it was made after it.
Overlapped(t) ==
    \/ frame[t].concurrent
    \/ \E u \in Callers \ {t} : frame[u].id > frame[t].id

\* C14: with two threads and no locking, an emit calls a callback with bound
\* arguments never bound together with it only when a connect or disconnect
\* of the other thread overlaps it, that is, was in progress when emit was
\* called or was made between that moment and the call of the callback.
\* (That such a call of a callback does happen is C14_Witness.)
C14_MixOnlyByOverlap ==
    [][\A t \in Callers :
          (~frame[t].called /\ MixedCall(frame[t])') =>
              Overlapped(t)]_vars
\* ... reached: during a connect of the other thread, the emitting thread
\* has called g with the bound arguments that only f was connected with.
C14_Witness ==
    \E t \in Callers :
        /\ MixedCall(frame[t])
        /\ Overlapped(t)
        /\ frame[t].inv.target = "g"
        /\ \E b \in connected :
              /\ b.callback = "f"
              /\ b.cb_args # EmptyArgs
              /\ frame[t].inv.args = ConcatArgs(b.cb_args, frame[t].args)

\* The calls of a callback and the threads that a finished emit with frame f,
\* n threads started, owes to the binding b it was called on.
OneInvocation(f, n, b) ==
    IF b.callback = None
    THEN ~f.called /\ n = 0
    ELSE IF f._threaded
         THEN n = 1 /\ ~f.called
         ELSE n = 0 /\ f.called /\ f.inv.target = b.callback

\* C15: every emit made while a callback is bound causes exactly one call of
\* that callback: a threaded emit starts exactly one thread (whose target is
\* the callback) and does not call it itself, a synchronous emit calls it
\* itself and starts no thread; an emit with no callback bound starts no
\* thread and calls nothing.  So the threads ever started are as many as the
\* threaded emits made on a bound callback.
C15_OneInvocationPerEmit ==
    \A t \in Callers :
        Done(t, "emit") =>
            /\ OneInvocation(frame[t], Cardinality(ThreadsOf(t)), frame[t].pre)
            /\ frame[t].spawned = Cardinality(ThreadsOf(t))
            /\ \A i \in ThreadsOf(t) : threads[i].target = frame[t].pre.callback

\* What thread i calls: its target and the arguments it passes.
ThreadCall(i) ==
    [target |-> threads[i].target, args |-> threads[i].args,
     kwargs |-> threads[i].kwargs]

\* C16: the thread a threaded emit starts calls the callback that was bound
\* when emit was called, with that binding's arguments merged with the
\* emit's; and no later step (a connect, a disconnect, another emit, the
\* thread's own run) changes the target or the arguments of a thread
\* already started.
C16_ThreadCallIsFixed ==
    /\ [](\A t \in Callers :
            frame[t].op = "emit" =>
                \A i \in ThreadsOf(t) :
                    MergedCall(threads[i].target, threads[i].args, threads[i].kwargs,
                               frame[t].pre.callback, frame[t].pre.cb_args,
                               frame[t].pre.cb_kwargs, frame[t].args, frame[t].kwargs))
    /\ [][\A i \in DOMAIN threads :
            /\ i \in DOMAIN threads'
            /\ ThreadCall(i)' = ThreadCall(i)]_vars
\* ... reached: connect(g) has returned after a threaded emit on f bound
\* with (1, 2) returned; the emit's thread has not run yet and still is to
\* call f(1, 2, 3).
C16_Witness ==
    \E t \in Callers :
        /\ Done(t, "connect")
        /\ frame[t].outcome = "ok"
        /\ frame[t].cb = "g"
        /\ callback = "g"
        /\ frame[t].prev.op = "emit"
        /\ \E i \in DOMAIN threads :
              /\ threads[i].call = frame[t].id - 1
              /\ threads[i].state = "started"
              /\ threads[i].target = "f"
              /\ threads[i].args = <<1, 2, 3>>

\* No method call is in progress: the state between two sequential calls.
Quiescent == \A t \in Callers : pc[t] \in {"idle", "off"}

\* C17: between sequential calls, whenever no callback is bound the bound
\* positional arguments are the empty tuple and the bound keyword arguments
\* the empty dict; a connect leaves exactly its own arguments bound,
\* whatever was bound or unbound before; and every callback an emit calls or
\* hands to a thread gets bound arguments that one connect bound together
\* with it.
C17_UnboundIsClean ==
    /\ (Quiescent /\ callback = None) =>
            (cb_args = EmptyArgs /\ cb_kwargs = EmptyKw)
    /\ \A t \in Callers :
        /\ Done(t, "connect") =>
              Binding = Bound(frame[t].cb, frame[t].args, frame[t].kwargs)
        /\ (frame[t].op = "emit" /\ frame[t].called) =>
              BoundTogether(frame[t].inv.target, frame[t].inv.args,
                            frame[t].inv.kwargs, frame[t].args, frame[t].kwargs)
        /\ frame[t].op = "emit" =>
              \A i \in ThreadsOf(t) :
                  BoundTogether(threads[i].target, threads[i].args,
                                threads[i].kwargs, frame[t].args, frame[t].kwargs)
\* ... reached: f was bound with (1, 2) and x = 10, disconnect(f) cleared
\* it, and connect(g) with no arguments has left g bound with none.
C17_Witness ==
    \E t \in Callers :
        /\ Done(t, "connect")
        /\ frame[t].prev.op = "disconnect"
        /\ frame[t].prev.outcome = "ok"
        /\ frame[t].prev.pre = Bound("f", <<1, 2>>, Kw({"x"}, [x |-> 10]))
        /\ frame[t].pre = NoBinding
        /\ Binding = Bound("g", EmptyArgs, EmptyKw)
====
